---- MODULE Spec2Model ----
(***************************************************************************)
(* Model of the whatsapp-sender message pipeline:                          *)
(*   - utils.py: template formatting (placeholder extraction, lookup,      *)
(*     in-place replacement) on the per-row and on the preview path;       *)
(*   - service_whatsapp/main.py: login check and send primitive;           *)
(*   - pages/main_page/app_logic.py: the handlers of AppLogicManager.      *)
(*                                                                         *)
(* A Python str is a sequence of one-character strings.  A cell value is   *)
(* a tagged record (a str or an int) so that str(value) is a conversion.   *)
(*                                                                         *)
(* handle_send_messages waits inside check_login_whatsapp and inside       *)
(* send_whatsapp_message, and nothing in AppLogicManager keeps another     *)
(* handler from running meanwhile: its calls run on threads, each with its *)
(* own locals, and every other handler is one step taken at any moment.    *)
(*   Spec    : every handler, with handle_send_messages on two threads;    *)
(*   SpecFmt : the formatting functions of utils.py on bounded inputs.     *)
(***************************************************************************)
EXTENDS Integers, Sequences, FiniteSets, TLC

VARIABLES txf_area_msg, df, selector_value, pc, loop_index, messages_sent,
          trace, loop_df, txf_result, txf_result_op, dialog_open, dialog_content,
          ret, page_dialog, selected_template, templates

vars == <<txf_area_msg, df, selector_value, pc, loop_index, messages_sent,
          trace, loop_df, txf_result, txf_result_op, dialog_open, dialog_content,
          ret, page_dialog, selected_template, templates>>

----------------------------------------------------------------------------
(* Bounds *)

MaxLen == 4

MaxRows == 2

MaxRecipients == 2

----------------------------------------------------------------------------
(* Python values *)

\* None where a str is expected: not a sequence of one-character strings.
None == <<"None">>

\* The empty str "".
EmptyStr == <<>>

StrVal(s) == [t |-> "str", s |-> s]

IntVal(n) == [t |-> "int", n |-> n]

Digit(d) == <<"0", "1", "2", "3", "4", "5", "6", "7", "8", "9">>[d + 1]

RECURSIVE IntToStr(_)
IntToStr(n) == IF n < 10 THEN <<Digit(n)>>
               ELSE IntToStr(n \div 10) \o <<Digit(n % 10)>>

\* A call either returns a value or raises an exception.
Return(v) == [kind |-> "return", value |-> v]

Raise(e) == [kind |-> "raise", exc |-> e]

DfEmptyException == "DfEmptyException"

TemplateEmptyOrNoneException == "TemplateEmptyOrNoneException"

KeyError == "KeyError"

NotLoggedInException == "NotLoggedInException"

SendException == "Exception"

\* A pandas Series (one row): a function from column names to cell values.
Series(row) == [cls |-> "Series", row |-> row]

\* A pandas DataFrame with the default RangeIndex: rows[1] has label 0.
DataFrame(columns, rows) == [cls |-> "DataFrame", columns |-> columns, rows |-> rows]

\* ui_manager.df before any upload.
NoneDf == [cls |-> "NoneType"]

----------------------------------------------------------------------------
(* str and re primitives used by utils.py *)

\* str(var_value)
str(v) == IF v.t = "int" THEN IntToStr(v.n) ELSE v.s

\* The characters str.strip() removes (Py_UNICODE_ISSPACE).  A character with
\* no TLA+ escape is written as its Python escape.
Whitespace ==
    {" ", "\t", "\n", "\r", "\f", "\\x0b", "\\x1c", "\\x1d", "\\x1e", "\\x1f",
     "\\x85", "\\xa0", "\\u1680", "\\u2000", "\\u2001", "\\u2002", "\\u2003",
     "\\u2004", "\\u2005", "\\u2006", "\\u2007", "\\u2008", "\\u2009", "\\u200a",
     "\\u2028", "\\u2029", "\\u202f", "\\u205f", "\\u3000"}

\* var.strip(): drop leading and trailing whitespace.
strip(s) ==
    LET keep == {i \in 1..Len(s) : s[i] \notin Whitespace}
    IN  IF keep = {} THEN <<>>
        ELSE LET lo == CHOOSE i \in keep : \A j \in keep : i <= j
                 hi == CHOOSE i \in keep : \A j \in keep : j <= i
             IN  SubSeq(s, lo, hi)

\* Greedy [^}]+ started at index i: the index of the last character of the
\* maximal run of characters other than "}" (i - 1 when the run is empty).
RECURSIVE run_end_no_open(_, _)
run_end_no_open(s, i) ==
    IF i <= Len(s) /\ s[i] \notin {"{", "}"} THEN run_end_no_open(s, i + 1) ELSE i - 1

RECURSIVE run_end(_, _)
run_end(s, i) == IF i <= Len(s) /\ s[i] # "}" THEN run_end(s, i + 1) ELSE i - 1

\* re.findall(r"\{([^}]+)\}", s) scanning from index pos: leftmost match,
\* group 1 collected, scan resumed after the match.
\* The pattern with * in place of +: an empty name is matched too.
RECURSIVE findall_from_star(_, _)
findall_from_star(s, pos) ==
    IF pos > Len(s) THEN <<>>
    ELSE IF s[pos] = "{"
         THEN LET e == run_end(s, pos + 1)
              IN  IF e + 1 <= Len(s) /\ s[e + 1] = "}"
                  THEN <<SubSeq(s, pos + 1, e)>> \o findall_from_star(s, e + 2)
                  ELSE findall_from_star(s, pos + 1)
         ELSE findall_from_star(s, pos + 1)

RECURSIVE findall_from(_, _)
findall_from(s, pos) ==
    IF pos > Len(s) THEN <<>>
    ELSE IF s[pos] = "{"
         THEN LET e == run_end(s, pos + 1)
              IN  IF e >= pos + 1 /\ e + 1 <= Len(s) /\ s[e + 1] = "}"
                  THEN <<SubSeq(s, pos + 1, e)>> \o findall_from(s, e + 2)
                  ELSE findall_from(s, pos + 1)
         ELSE findall_from(s, pos + 1)

findall(s) == findall_from(s, 1)

\* s.replace(old, new) for a non-empty old: every non-overlapping occurrence,
\* left to right.
RECURSIVE replace_from(_, _, _, _)
replace_from(s, old, new, pos) ==
    IF pos > Len(s) THEN <<>>
    ELSE IF pos + Len(old) - 1 <= Len(s) /\ SubSeq(s, pos, pos + Len(old) - 1) = old
         THEN new \o replace_from(s, old, new, pos + Len(old))
         ELSE <<s[pos]>> \o replace_from(s, old, new, pos + 1)

replace(s, old, new) == replace_from(s, old, new, 1)

----------------------------------------------------------------------------
(* utils.py *)

\* df.empty: any axis of length 0.
empty(d) == d.columns = {} \/ Len(d.rows) = 0

validate_dataframe(d) ==
    IF d.cls = "NoneType" THEN Raise(DfEmptyException)
    ELSE IF empty(d) THEN Raise(DfEmptyException)
    ELSE Return(None)

\* placeholders = re.findall(r"\{([^}]+)\}", original_message)
placeholders(original_message) == findall(original_message)

\* variable_names = [var.strip() for var in placeholders]
variable_names(original_message) ==
    LET p == placeholders(original_message)
    IN  [i \in 1..Len(p) |-> strip(p[i])]

\* A lookup that defaults to a blank, as data.get(var_name, "") would.
lookup_default(data, var_name) ==
    IF data.cls = "DataFrame"
    THEN IF var_name \in data.columns /\ Len(data.rows) >= 1
         THEN Return(data.rows[1][var_name])
         ELSE Return(StrVal(EmptyStr))
    ELSE IF var_name \in DOMAIN data.row
         THEN Return(data.row[var_name])
         ELSE Return(StrVal(EmptyStr))

\* data.loc[0, var_name] on a DataFrame, data[var_name] on a Series.
lookup(data, var_name) ==
    IF data.cls = "DataFrame"
    THEN IF var_name \in data.columns /\ Len(data.rows) >= 1
         THEN Return(data.rows[1][var_name])
         ELSE Raise(KeyError)
    ELSE IF var_name \in DOMAIN data.row
         THEN Return(data.row[var_name])
         ELSE Raise(KeyError)

\* The for loop of format_message_base from the k-th variable name on.
RECURSIVE format_loop(_, _, _, _)
format_loop(result, names, k, data) ==
    IF k > Len(names) THEN Return(result)
    ELSE LET var_value == lookup(data, names[k])
         IN  IF var_value.kind = "raise" THEN var_value
             ELSE format_loop(
                      replace(result, <<"{">> \o names[k] \o <<"}">>, str(var_value.value)),
                      names, k + 1, data)

\* format_message_base without its guard on the template.
format_message_base_unguarded(original_message, data) ==
    format_loop(original_message, variable_names(original_message), 1, data)

format_message_base(original_message, data) ==
    IF original_message \in {None, EmptyStr}
    THEN Raise(TemplateEmptyOrNoneException)
    ELSE format_loop(original_message, variable_names(original_message), 1, data)

\* format_preview_message looking at the template before the table.
format_preview_message_template_first(original_message, d) ==
    IF original_message \in {None, EmptyStr}
    THEN Raise(TemplateEmptyOrNoneException)
    ELSE LET v == validate_dataframe(d)
         IN  IF v.kind = "raise" THEN v
             ELSE format_message_base(original_message, d)

format_preview_message(original_message, d) ==
    LET v == validate_dataframe(d)
    IN  IF v.kind = "raise" THEN v
        ELSE format_message_base(original_message, d)

format_message(row, original_message) == format_message_base(original_message, row)

----------------------------------------------------------------------------
(* Inputs of the formatting functions *)

Alphabet == {"{", "}", "a", "b", " "}

ShortTemplates == UNION {[1..n -> Alphabet] : n \in 0..MaxLen}

ExampleTemplates ==
    { <<"{", "a", "}", "-", "{", "b", "}", "-", "{", "a", "}">>,
      <<"H", "i", " ", "{", "a", "}", ",", " ", "{", "b", "}">>,
      <<"{", "a", "}", "{", "b", "}">>,
      <<"{", " ", "a", " ", "}">>,
      <<"{", "\t", "a", "\n", "}">>,
      <<"{", "\\xa0", "b", "}", "{", "\n", "}">>,
      <<"{", "a", "{", "b", "}">> }

Templates == ShortTemplates \cup ExampleTemplates \cup {None}

ColA == <<"a">>

ColB == <<"b">>

ValuesOf(col) ==
    IF col = ColA THEN {StrVal(<<"A", "n", "a">>), StrVal(<<"{", "b", "}">>)}
    ELSE {IntVal(42), StrVal(EmptyStr)}

RowsOver(cols) == {r \in [cols -> UNION {ValuesOf(c) : c \in cols}] :
                      \A c \in cols : r[c] \in ValuesOf(c)}

TablesOver(cols, maxRows) ==
    {DataFrame(cols, rows) : rows \in UNION {[1..n -> RowsOver(cols)] : n \in 0..maxRows}}

FmtTables == UNION {TablesOver(cols, MaxRows) : cols \in SUBSET {ColA, ColB}}

----------------------------------------------------------------------------
(* service_whatsapp/main.py *)

\* What pg.locateOnScreen("check.png") can do: return a location, return
\* None, or raise pg.ImageNotFoundException.
ScreenOutcomes == {"located", "None", "ImageNotFoundException"}

check_login_whatsapp(screen) ==
    IF screen = "None" THEN Return(None)
    ELSE IF screen = "located" THEN Raise(NotLoggedInException)
    ELSE Return(None)

\* What kit.sendwhatmsg_instantly / pg.hotkey can do: return or raise.
SendOutcomes == {"sent", "raised"}

send_whatsapp_message(phone, message, outcome) ==
    IF outcome = "sent" THEN Return(None) ELSE Raise(SendException)

----------------------------------------------------------------------------
(* User interface state read and written by AppLogicManager *)

NoSelection == "None"

NoCall == [fn |-> "none", row |-> 0, out |-> Return(None)]

Field(text, arg, bgcolor) == [value |-> [text |-> text, arg |-> arg], bgcolor |-> bgcolor]

BlankField == Field("", StrVal(EmptyStr), "default")

ErrorFormattingMessages(e) == Field("Error formatting messages: ", StrVal(<<e>>), "RED")

PleaseLogin ==
    Field("Error trying sent messages. Please verify you are logged in at https://web.whatsapp.com",
          StrVal(EmptyStr), "RED")

ErrorWithMessageTo(numero) == Field("Error with message to ", numero, "RED")

MessagesSentSuccessfully(n) == Field("Messages sent successfully. ", IntVal(n), "LIGHT_GREEN")

TheFileIsEmpty == Field("The file is empty.", StrVal(EmptyStr), "RED")

FileUploaded == Field("file_path", StrVal(EmptyStr), "LIGHT_GREEN")

UploadRejected == Field("upload rejected", StrVal(EmptyStr), "RED")

Numero == <<"n", "u", "m", "e", "r", "o">>

FormattedMessage == <<"f", "o", "r", "m", "a", "t", "t", "e", "d", "_",
                      "m", "e", "s", "s", "a", "g", "e">>

\* validations_ui.check_selector_template: a template is selected.
check_selector_template(selector) == selector # NoSelection

\* validations_ui.check_upload_file: a non-empty table with a numero column.
check_upload_file(d) ==
    /\ d.cls = "DataFrame"
    /\ ~empty(d)
    /\ Numero \in d.columns

\* validations_ui.check_df_uploaded: a table is uploaded and is not empty.
check_df_uploaded(d) == d.cls = "DataFrame" /\ ~empty(d)

----------------------------------------------------------------------------
(* Inputs of the handlers *)

Phone(i) == StrVal(<<"9", Digit(i)>>)

CellA(i) == IF i % 2 = 1 THEN StrVal(<<"A", "n", "a">>) ELSE IntVal(42)

UploadTable(cols, n) ==
    DataFrame(cols, [i \in 1..n |-> [c \in cols |-> IF c = Numero THEN Phone(i) ELSE CellA(i)]])

\* The uploads: a table of MaxRecipients recipients and one whose rows lack
\* the field the template names.
UploadTables ==
    { UploadTable({Numero, ColA}, MaxRecipients),
      UploadTable({Numero}, 1) }

TypedMessages ==
    { EmptyStr,
      <<"H", "i", " ", "{", "a", "}">> }

----------------------------------------------------------------------------
(* pages/main_page/app_logic.py: AppLogicManager *)

\* page.dialog before any dialog was opened.
NoDialog == "None"

\* ui_manager.selected_template when no template was found.
NoTemplate == <<>>

\* f"{text_template}"
fstring(v) == IF v = None THEN <<"N", "o", "n", "e">> ELSE v

\* Rows (id, template_name, content) the template repository can return.
Saludo == <<1, "saludo", <<"H", "i", " ", "{", "a", "}">>>>

Aviso == <<2, "aviso", <<"H", "i">>>>

InitialTemplates == <<Saludo, Aviso>>

\* What get_templates_db() returns after a save or an update: the rows of the
\* repository, the saved name among them.
TemplateLists == {<<Saludo, Aviso>>}

\* What the user can have picked in the dropdown or typed as the template name
\* (txf_new_template.value).
TemplateNames == {"saludo"}

\* next((t for t in ui_manager.templates if t[1] == template_name), None)
find_template_by_name(tpls, template_name) ==
    LET hits == {i \in 1..Len(tpls) : tpls[i][2] = template_name}
    IN  IF hits = {} THEN NoTemplate
        ELSE tpls[CHOOSE i \in hits : \A j \in hits : i <= j]

\* utils.find_option(selector_template, selector_template.value): the option
\* of the selected value, None when nothing is selected.
find_option(selector) == selector # NoSelection

\* page.dialog.open = False: closes the dialog page.dialog refers to.  The
\* open flag followed here is the one of confirm_preview_dialog.
close_dialog ==
    dialog_open' = IF page_dialog = "preview" THEN FALSE ELSE dialog_open

\* The body of handle_dropdown_changed for the selector value name and the
\* template list tpls.
dropdown_changed(name, tpls) ==
    /\ selected_template' = find_template_by_name(tpls, name)
    /\ txf_area_msg' = IF find_template_by_name(tpls, name) # NoTemplate
                       THEN fstring(find_template_by_name(tpls, name)[3])
                       ELSE txf_area_msg

\* The threads the GUI framework runs handle_send_messages on: the handler
\* waits (time.sleep, pywhatkit) inside check_login_whatsapp and inside
\* send_whatsapp_message, and meanwhile other handlers, a second
\* handle_send_messages included, run on the same ui_manager.
Threads == {"t1", "t2"}

\* What one execution of handle_send_messages does that can be observed from
\* outside, in order: the df.apply that formats the rows, the login check, the
\* reads of a row, the send calls and the statuses it writes.
ApplyEvent(result) == [call |-> "df.apply", result |-> result]

LoginEvent(result) == [call |-> "check_login_whatsapp", result |-> result]

GetItemEvent(index, key, result) ==
    [call |-> "recipient[]", index |-> index, key |-> key, result |-> result]

SendEvent(index, phone, message, result) ==
    [call |-> "send_whatsapp_message", index |-> index, phone |-> phone,
     message |-> message, result |-> result]

ShowEvent(target, field) == [call |-> "show", target |-> target, field |-> field]

Init ==
    /\ txf_area_msg = EmptyStr
    /\ df = NoneDf
    /\ selector_value = NoSelection
    /\ pc = [t \in Threads |-> "idle"]
    /\ loop_index = [t \in Threads |-> 0]
    /\ messages_sent = [t \in Threads |-> 0]
    /\ trace = [t \in Threads |-> <<>>]
    /\ loop_df = [t \in Threads |-> NoneDf]
    /\ txf_result = BlankField
    /\ txf_result_op = BlankField
    /\ dialog_open = FALSE
    /\ dialog_content = EmptyStr
    /\ ret = NoCall
    /\ page_dialog = NoDialog
    /\ selected_template = NoTemplate
    /\ templates = InitialTemplates

\* The locals of the running handle_send_messages calls.
locals == <<pc, loop_index, messages_sent, trace, loop_df>>

\* The user edits the message text area (ui_manager.txf_area_msg.value).
TypeMessage(t) ==
    /\ txf_area_msg' = t
    /\ UNCHANGED <<df, selector_value, locals,
                   txf_result, txf_result_op, dialog_open, dialog_content, ret,
                   page_dialog, selected_template, templates>>

\* The user picks the option name in the dropdown; its on_change handler runs.
handle_dropdown_changed(name) ==
    /\ selector_value' = name
    /\ dropdown_changed(name, templates)
    /\ UNCHANGED <<df, locals, txf_result, txf_result_op,
                   dialog_open, dialog_content, ret, page_dialog, templates>>

handle_pick_file_result(table) ==
    /\ df' = table
    /\ txf_result' = IF check_upload_file(table) THEN FileUploaded ELSE UploadRejected
    /\ UNCHANGED <<txf_area_msg, selector_value, locals,
                   txf_result_op, dialog_open, dialog_content, ret,
                   page_dialog, selected_template, templates>>

\* new_name is txf_new_template.value, success what save_template_db returns,
\* db_templates what get_templates_db() returns.
handle_save_new_template(new_name, success, db_templates) ==
    /\ IF success
       THEN /\ selector_value' = new_name
            /\ templates' = db_templates
            /\ dropdown_changed(new_name, db_templates)
       ELSE UNCHANGED <<selector_value, templates, selected_template, txf_area_msg>>
    /\ UNCHANGED <<df, locals, txf_result, txf_result_op,
                   dialog_open, dialog_content, ret, page_dialog>>

handle_open_edit_dialog ==
    /\ page_dialog' = IF check_selector_template(selector_value) THEN "edit" ELSE page_dialog
    /\ UNCHANGED <<txf_area_msg, df, selector_value, locals,
                   txf_result, txf_result_op, dialog_open, dialog_content, ret,
                   selected_template, templates>>

\* With an option found and no selected template, selected_template.id raises
\* and the handler ends there.
handle_update_template(new_name, db_templates) ==
    /\ IF find_option(selector_value)
       THEN IF selected_template = NoTemplate
            THEN UNCHANGED <<selector_value, templates, selected_template, txf_area_msg,
                             dialog_open>>
            ELSE /\ selector_value' = new_name
                 /\ templates' = db_templates
                 /\ dropdown_changed(new_name, db_templates)
                 /\ close_dialog
       ELSE /\ close_dialog
            /\ UNCHANGED <<selector_value, templates, selected_template, txf_area_msg>>
    /\ UNCHANGED <<df, locals, txf_result, txf_result_op,
                   dialog_content, ret, page_dialog>>

handle_open_delete_dialog ==
    /\ page_dialog' = IF check_selector_template(selector_value) THEN "delete" ELSE page_dialog
    /\ UNCHANGED <<txf_area_msg, df, selector_value, locals,
                   txf_result, txf_result_op, dialog_open, dialog_content, ret,
                   selected_template, templates>>

\* reset_template_fields sets the value of the three template controls to
\* None; handle_close_dialog runs whether or not an option was found.  With an
\* option found and no selected template, selected_template.id raises and the
\* handler ends there.
handle_delete_template ==
    /\ IF find_option(selector_value)
       THEN IF selected_template = NoTemplate
            THEN UNCHANGED <<txf_area_msg, selector_value, dialog_open>>
            ELSE /\ txf_area_msg' = None
                 /\ selector_value' = NoSelection
                 /\ close_dialog
       ELSE /\ close_dialog
            /\ UNCHANGED <<txf_area_msg, selector_value>>
    /\ UNCHANGED <<df, locals, txf_result, txf_result_op,
                   dialog_content, ret, page_dialog, selected_template, templates>>

\* An apply whose lambda swallows a formatting error and yields a blank.
apply_format_message_lenient(d, template) ==
    [i \in 1..Len(d.rows) |->
        LET r == format_message(Series(d.rows[i]), template)
        IN  IF r.kind = "raise" THEN Return(EmptyStr) ELSE r]

\* df.apply(lambda row: utils.format_message(row, template), axis=1): the
\* result of format_message for each row.
apply_format_message(d, template) ==
    [i \in 1..Len(d.rows) |-> format_message(Series(d.rows[i]), template)]

\* What the df.apply call does: it raises what the first failing row raised,
\* or returns the formatted messages.
apply_result(formatted) ==
    LET failed == {i \in 1..Len(formatted) : formatted[i].kind = "raise"}
    IN  IF failed # {}
        THEN Raise(formatted[CHOOSE i \in failed : \A j \in failed : i <= j].exc)
        ELSE Return([i \in 1..Len(formatted) |-> formatted[i].value])

\* df["formatted_message"] = <the formatted messages>
with_formatted_message(d, messages) ==
    DataFrame(d.columns \cup {FormattedMessage},
              [i \in 1..Len(d.rows) |->
                  [c \in d.columns \cup {FormattedMessage} |->
                      IF c = FormattedMessage THEN StrVal(messages[i])
                      ELSE d.rows[i][c]]])

\* handle_send_messages on thread t up to the login check: the two
\* validations and the formatting of every row, with no wait in between.  A
\* failed validation returns at once: the call is over within the step.
send_validate_and_format(t) ==
    /\ pc[t] = "idle"
    /\ IF ~check_selector_template(selector_value)
       THEN UNCHANGED <<pc, trace, df, txf_result>>
       ELSE IF ~check_upload_file(df)
       THEN /\ txf_result' = UploadRejected
            /\ UNCHANGED <<pc, trace, df>>
       ELSE LET applied == apply_result(apply_format_message(df, txf_area_msg))
            IN  IF applied.kind = "raise"
                THEN /\ txf_result' = ErrorFormattingMessages(applied.exc)
                     /\ pc' = [pc EXCEPT ![t] = "done"]
                     /\ trace' = [trace EXCEPT ![t] =
                            <<ApplyEvent(applied),
                              ShowEvent("txf_result", ErrorFormattingMessages(applied.exc))>>]
                     /\ UNCHANGED df
                ELSE /\ df' = with_formatted_message(df, applied.value)
                     /\ pc' = [pc EXCEPT ![t] = "login"]
                     /\ trace' = [trace EXCEPT ![t] = <<ApplyEvent(applied)>>]
                     /\ UNCHANGED txf_result
    /\ UNCHANGED <<txf_area_msg, selector_value, loop_index, messages_sent, loop_df,
                   txf_result_op, dialog_open, dialog_content, ret,
                   page_dialog, selected_template, templates>>

\* The handler going on to the loop whatever the login check did.
after_login_ignored(login) == "send"

\* Where handle_send_messages continues after check_login_whatsapp().
after_login(login) == IF login.kind = "raise" THEN "done" ELSE "send"

\* The end of the wait in check_login_whatsapp() on thread t and, when it
\* raises, the except NotLoggedInException clause; otherwise messages_sent = 0
\* and the loop starts on the rows ui_manager.df has at that moment.
send_check_login(t, screen) ==
    /\ pc[t] = "login"
    /\ LET login == check_login_whatsapp(screen)
       IN  /\ pc' = [pc EXCEPT ![t] = after_login(login)]
           /\ IF login.kind = "raise"
              THEN /\ txf_result' = PleaseLogin
                   /\ trace' = [trace EXCEPT ![t] =
                          trace[t] \o <<LoginEvent(login), ShowEvent("txf_result", PleaseLogin)>>]
                   /\ UNCHANGED <<messages_sent, loop_index, loop_df>>
              ELSE /\ messages_sent' = [messages_sent EXCEPT ![t] = 0]
                   /\ loop_index' = [loop_index EXCEPT ![t] = 1]
                   /\ loop_df' = [loop_df EXCEPT ![t] = df]
                   /\ trace' = [trace EXCEPT ![t] = Append(trace[t], LoginEvent(login))]
                   /\ UNCHANGED txf_result
    /\ UNCHANGED <<txf_area_msg, df, selector_value, txf_result_op,
                   dialog_open, dialog_content, ret,
                   page_dialog, selected_template, templates>>

\* The i-th row yielded by df.iterrows().
iterrows(d, i) == d.rows[i]

\* recipient[key]
getitem(recipient, key) ==
    IF key \in DOMAIN recipient THEN Return(recipient[key]) ELSE Raise(KeyError)

\* Where the loop continues after one send_whatsapp_message call.
after_send(sent) == IF sent.kind = "raise" THEN "done" ELSE "send"

\* One iteration of the for loop on thread t, to the end of the wait in
\* send_whatsapp_message.  A row without numero raises KeyError in the try
\* block and again in the except clause, which ends the handler; a row
\* without formatted_message raises KeyError before the call is made.
send_one(t, outcome) ==
    /\ pc[t] = "send"
    /\ loop_index[t] <= Len(loop_df[t].rows)
    /\ LET index == loop_index[t]
           recipient == iterrows(loop_df[t], index)
           phone == getitem(recipient, Numero)
           message == getitem(recipient, FormattedMessage)
       IN  IF phone.kind = "raise"
           THEN /\ trace' = [trace EXCEPT ![t] =
                       trace[t] \o <<GetItemEvent(index, Numero, phone),
                                     GetItemEvent(index, Numero, phone)>>]
                /\ pc' = [pc EXCEPT ![t] = "done"]
                /\ UNCHANGED <<messages_sent, loop_index, txf_result_op>>
           ELSE IF message.kind = "raise"
           THEN /\ trace' = [trace EXCEPT ![t] =
                       trace[t] \o <<GetItemEvent(index, FormattedMessage, message),
                                     ShowEvent("txf_result_op", ErrorWithMessageTo(phone.value))>>]
                /\ txf_result_op' = ErrorWithMessageTo(phone.value)
                /\ pc' = [pc EXCEPT ![t] = "done"]
                /\ UNCHANGED <<messages_sent, loop_index>>
           ELSE LET sent == send_whatsapp_message(phone.value, message.value, outcome)
                IN  /\ pc' = [pc EXCEPT ![t] = after_send(sent)]
                    /\ IF sent.kind = "raise"
                       THEN /\ txf_result_op' = ErrorWithMessageTo(phone.value)
                            /\ trace' = [trace EXCEPT ![t] =
                                   trace[t] \o <<SendEvent(index, phone.value, message.value, sent),
                                                 ShowEvent("txf_result_op",
                                                           ErrorWithMessageTo(phone.value))>>]
                            /\ UNCHANGED <<messages_sent, loop_index>>
                       ELSE /\ messages_sent' = [messages_sent EXCEPT ![t] = messages_sent[t] + 1]
                            /\ loop_index' = [loop_index EXCEPT ![t] = index + 1]
                            /\ trace' = [trace EXCEPT ![t] =
                                   Append(trace[t],
                                          SendEvent(index, phone.value, message.value, sent))]
                            /\ UNCHANGED txf_result_op
    /\ UNCHANGED <<txf_area_msg, df, selector_value, txf_result, loop_df,
                   dialog_open, dialog_content, ret,
                   page_dialog, selected_template, templates>>

\* After the loop on thread t: the success status.
send_finish(t) ==
    /\ pc[t] = "send"
    /\ loop_index[t] > Len(loop_df[t].rows)
    /\ txf_result_op' = MessagesSentSuccessfully(messages_sent[t])
    /\ trace' = [trace EXCEPT ![t] =
           Append(trace[t], ShowEvent("txf_result_op", MessagesSentSuccessfully(messages_sent[t])))]
    /\ pc' = [pc EXCEPT ![t] = "done"]
    /\ UNCHANGED <<txf_area_msg, df, selector_value, loop_index, messages_sent, loop_df,
                   txf_result, dialog_open, dialog_content, ret,
                   page_dialog, selected_template, templates>>

\* handle_send_messages returns on thread t; its locals are gone.
send_return(t) ==
    /\ pc[t] = "done"
    /\ pc' = [pc EXCEPT ![t] = "idle"]
    /\ trace' = [trace EXCEPT ![t] = <<>>]
    /\ loop_index' = [loop_index EXCEPT ![t] = 0]
    /\ messages_sent' = [messages_sent EXCEPT ![t] = 0]
    /\ loop_df' = [loop_df EXCEPT ![t] = NoneDf]
    /\ UNCHANGED <<txf_area_msg, df, selector_value, txf_result, txf_result_op,
                   dialog_open, dialog_content, ret,
                   page_dialog, selected_template, templates>>

\* What generate_preview_template returns: the formatted message, or None
\* after a caught DfEmptyException / TemplateEmptyOrNoneException; any other
\* exception propagates.  except_matches: the classes named in the except
\* clause (imported from pages.handle_errors) are the classes the formatting
\* functions raise; utils.py defines classes of its own, and then the clause
\* matches nothing.
generate_preview_template(template, d, except_matches) ==
    LET r == format_preview_message(template, d)
    IN  IF /\ r.kind = "raise"
           /\ r.exc \in {DfEmptyException, TemplateEmptyOrNoneException}
           /\ except_matches
        THEN Return(None)
        ELSE r

handle_open_preview_dialog(except_matches) ==
    /\ IF ~check_selector_template(selector_value)
       THEN UNCHANGED <<txf_result, dialog_open, dialog_content, page_dialog>>
       ELSE IF ~check_upload_file(df) \/ ~check_df_uploaded(df)
       THEN /\ txf_result' = UploadRejected
            /\ UNCHANGED <<dialog_open, dialog_content, page_dialog>>
       ELSE LET raised == format_preview_message(txf_area_msg, df).kind = "raise"
                message_formatted == generate_preview_template(txf_area_msg, df, except_matches)
            IN  /\ txf_result' = IF raised /\ message_formatted.kind = "return"
                                 THEN TheFileIsEmpty ELSE txf_result
                /\ IF message_formatted.kind = "raise"
                   THEN UNCHANGED <<dialog_open, dialog_content, page_dialog>>
                   ELSE /\ dialog_content' = message_formatted.value
                        /\ dialog_open' = TRUE
                        /\ page_dialog' = "preview"
    /\ UNCHANGED <<txf_area_msg, df, selector_value, locals,
                   txf_result_op, ret, selected_template, templates>>

\* With no dialog ever opened, page.dialog is None and the assignment raises.
handle_close_dialog ==
    /\ close_dialog
    /\ UNCHANGED <<txf_area_msg, df, selector_value, locals,
                   txf_result, txf_result_op, dialog_content, ret,
                   page_dialog, selected_template, templates>>

\* Every handler of AppLogicManager, taken at any moment: the calls of
\* handle_send_messages on the threads step by step, every other handler in
\* one step.
Next ==
    \/ \E t \in TypedMessages : TypeMessage(t)
    \/ \E name \in TemplateNames : handle_dropdown_changed(name)
    \/ \E table \in UploadTables : handle_pick_file_result(table)
    \/ \E new_name \in TemplateNames, success \in BOOLEAN, db_templates \in TemplateLists :
          handle_save_new_template(new_name, success, db_templates)
    \/ handle_open_edit_dialog
    \/ \E new_name \in TemplateNames, db_templates \in TemplateLists :
          handle_update_template(new_name, db_templates)
    \/ handle_open_delete_dialog
    \/ handle_delete_template
    \/ \E except_matches \in BOOLEAN : handle_open_preview_dialog(except_matches)
    \/ handle_close_dialog
    \/ \E t \in Threads : send_validate_and_format(t)
    \/ \E t \in Threads, screen \in ScreenOutcomes : send_check_login(t, screen)
    \/ \E t \in Threads, outcome \in SendOutcomes : send_one(t, outcome)
    \/ \E t \in Threads : send_finish(t)
    \/ \E t \in Threads : send_return(t)

Spec == Init /\ [][Next]_vars

----------------------------------------------------------------------------
(* The formatting functions of utils.py applied to bounded inputs *)

InitFmt ==
    /\ txf_area_msg \in Templates
    /\ df \in FmtTables \cup {NoneDf}
    /\ selector_value = NoSelection
    /\ pc = [t \in Threads |-> "idle"]
    /\ loop_index = [t \in Threads |-> 0]
    /\ messages_sent = [t \in Threads |-> 0]
    /\ trace = [t \in Threads |-> <<>>]
    /\ loop_df = [t \in Threads |-> NoneDf]
    /\ txf_result = BlankField
    /\ txf_result_op = BlankField
    /\ dialog_open = FALSE
    /\ dialog_content = EmptyStr
    /\ ret = NoCall
    /\ page_dialog = NoDialog
    /\ selected_template = NoTemplate
    /\ templates = InitialTemplates

fmt_unchanged == UNCHANGED <<txf_area_msg, df, selector_value, locals,
                             txf_result, txf_result_op,
                             dialog_open, dialog_content,
                             page_dialog, selected_template, templates>>

\* format_message(row, original_message) on the i-th row of the table.
CallFormatMessage(i) ==
    /\ df.cls = "DataFrame"
    /\ i \in 1..Len(df.rows)
    /\ ret' = [fn |-> "format_message", row |-> i,
               out |-> format_message(Series(df.rows[i]), txf_area_msg)]
    /\ fmt_unchanged

\* format_preview_message(original_message, df)
CallFormatPreview ==
    /\ ret' = [fn |-> "format_preview_message", row |-> 0,
               out |-> format_preview_message(txf_area_msg, df)]
    /\ fmt_unchanged

\* The extraction step of format_message_base, reached only past the check
\* that raises on None and on "".
CallExtract ==
    /\ txf_area_msg \notin {None, EmptyStr}
    /\ ret' = [fn |-> "extract", row |-> 0,
               out |-> Return([placeholders |-> placeholders(txf_area_msg),
                               variable_names |-> variable_names(txf_area_msg)])]
    /\ fmt_unchanged

NextFmt ==
    \/ \E i \in 1..MaxRows : CallFormatMessage(i)
    \/ CallFormatPreview
    \/ CallExtract

SpecFmt == InitFmt /\ [][NextFmt]_vars

----------------------------------------------------------------------------
(* Placeholders of a template, stated on the positions of its braces *)

IsStr(s) == s # None

\* The position of the last "}" before position j (0 when there is none).
PrevClose(s, j) ==
    LET before == {p \in 1..(j - 1) : s[p] = "}"}
    IN  IF before = {} THEN 0 ELSE CHOOSE p \in before : \A q \in before : q <= p

\* The positions of "{" between the previous "}" and the "}" at position j.
OpensBefore(s, j) == {i \in (PrevClose(s, j) + 1)..(j - 1) : s[i] = "{"}

EarliestOpen(s, j) == CHOOSE i \in OpensBefore(s, j) : \A q \in OpensBefore(s, j) : i <= q

NearestOpen(s, j) == CHOOSE i \in OpensBefore(s, j) : \A q \in OpensBefore(s, j) : q <= i

\* The "}" that close a token when each "}" closes the earliest "{" that
\* follows the previous "}", with at least one character in between.
EarliestClosers(s) ==
    {j \in 1..Len(s) : s[j] = "}" /\ OpensBefore(s, j) # {} /\ EarliestOpen(s, j) < j - 1}

\* The "}" that close a token when each "}" closes the nearest preceding "{".
NearestClosers(s) ==
    {j \in 1..Len(s) : s[j] = "}" /\ OpensBefore(s, j) # {} /\ NearestOpen(s, j) < j - 1}

\* The k-th smallest element of a set of positions.
Kth(S, k) == CHOOSE j \in S : Cardinality({x \in S : x < j}) = k - 1

EarliestNames(s) ==
    [k \in 1..Cardinality(EarliestClosers(s)) |->
        LET j == Kth(EarliestClosers(s), k)
        IN  SubSeq(s, EarliestOpen(s, j) + 1, j - 1)]

NearestNames(s) ==
    [k \in 1..Cardinality(NearestClosers(s)) |->
        LET j == Kth(NearestClosers(s), k)
        IN  SubSeq(s, NearestOpen(s, j) + 1, j - 1)]

\* Leading and trailing whitespace removed, stated on the characters.
Trimmed(s, t) ==
    /\ \A i \in 1..Len(t) : (i = 1 \/ i = Len(t)) => t[i] \notin Whitespace
    /\ \E lo \in 0..Len(s) :
          /\ Len(t) + lo <= Len(s)
          /\ \A i \in 1..Len(s) :
                IF i > lo /\ i <= lo + Len(t) THEN s[i] = t[i - lo]
                ELSE s[i] \in Whitespace

\* The field names a template refers to: the trimmed names of its tokens.
FieldNames(s) == {strip(EarliestNames(s)[k]) : k \in 1..Len(EarliestNames(s))}

Extracted == ret.fn = "extract"

\* C8 as stated: extraction yields, left to right and with duplicates, the
\* text between each "}" and the nearest preceding "{".
C8_Original == Extracted => ret.out.value.placeholders = NearestNames(txf_area_msg)

\* C8: extraction yields, left to right and with duplicates, the text between
\* each "}" and the earliest "{" that follows the previous "}" (so a name may
\* itself contain "{"), a "{}" pair yielding no name; the variable names are
\* these texts with leading and trailing whitespace removed.
C8_Extraction ==
    Extracted =>
        /\ ret.out.value.placeholders = EarliestNames(txf_area_msg)
        /\ Len(ret.out.value.variable_names) = Len(ret.out.value.placeholders)
        /\ \A k \in 1..Len(ret.out.value.placeholders) :
              Trimmed(ret.out.value.placeholders[k], ret.out.value.variable_names[k])

C8_Witness ==
    /\ Extracted
    /\ txf_area_msg = <<"{", "a", "{", "b", "}">>
    /\ ret.out.value.variable_names = << <<"a", "{", "b">> >>

----------------------------------------------------------------------------
(* Claims on the formatting functions (checked under SpecFmt) *)

FormattedRow == ret.fn = "format_message"

FormattedPreview == ret.fn = "format_preview_message"

EmptyTemplate == txf_area_msg \in {None, EmptyStr}

TableAbsentOrEmpty == df.cls = "NoneType" \/ empty(df)

\* The record a call of CallFormatMessage / CallFormatPreview resolved names in.
DataColumns == IF df.cls = "DataFrame" THEN df.columns ELSE {}

\* C3 as stated: an empty or absent template fails with
\* TemplateEmptyOrNoneException on the per-row and on the preview path, whatever
\* the data source, an absent or empty table included.
C3_Original ==
    ((FormattedRow \/ FormattedPreview) /\ EmptyTemplate)
        => ret.out = Raise(TemplateEmptyOrNoneException)

\* C3: an empty or absent template fails with TemplateEmptyOrNoneException on
\* the per-row path for any record, and on the preview path for any table that
\* is present and not empty; on the preview path with an absent or empty table
\* the failure is DfEmptyException instead.
C3_EmptyTemplate ==
    /\ (FormattedRow /\ EmptyTemplate) => ret.out = Raise(TemplateEmptyOrNoneException)
    /\ (FormattedPreview /\ EmptyTemplate /\ ~TableAbsentOrEmpty)
          => ret.out = Raise(TemplateEmptyOrNoneException)
    /\ (FormattedPreview /\ EmptyTemplate /\ TableAbsentOrEmpty)
          => ret.out = Raise(DfEmptyException)

C3_Witness ==
    /\ FormattedPreview
    /\ txf_area_msg = EmptyStr
    /\ ~TableAbsentOrEmpty
    /\ ret.out = Raise(TemplateEmptyOrNoneException)

\* C4: on the preview path an absent table or a table with zero rows fails
\* with DfEmptyException whatever the template is (empty, absent, or naming
\* fields the table lacks): the check precedes extraction and lookup.
C4_EmptyDataSet ==
    (FormattedPreview /\ (df.cls = "NoneType" \/ Len(df.rows) = 0))
        => ret.out = Raise(DfEmptyException)

C4_Witness ==
    /\ FormattedPreview
    /\ df.cls = "DataFrame"
    /\ Len(df.rows) = 0
    /\ EmptyTemplate
    /\ ret.out = Raise(DfEmptyException)

\* C5: when a template names a field the record lacks, formatting the record
\* fails with KeyError: no result is returned, so the placeholder is neither
\* left in place nor replaced by a blank.
C5_FieldNotFound ==
    (/\ FormattedRow \/ (FormattedPreview /\ ~TableAbsentOrEmpty)
     /\ ~EmptyTemplate
     /\ \E name \in FieldNames(txf_area_msg) : name \notin DataColumns)
        => ret.out = Raise(KeyError)

C5_Witness ==
    /\ FormattedRow
    /\ txf_area_msg = <<"{", "a", "}", "{", "b", "}">>
    /\ df.columns = {ColA}
    /\ ret.out = Raise(KeyError)

\* The template with the token closed at each "}" of EarliestClosers replaced,
\* in one pass over the original template, by str of the field's value.
RECURSIVE Substituted(_, _, _)
Substituted(s, row, pos) ==
    IF pos > Len(s) THEN <<>>
    ELSE LET ends == {j \in EarliestClosers(s) : EarliestOpen(s, j) = pos}
         IN  IF ends # {}
             THEN LET j == CHOOSE j \in ends : TRUE
                  IN  str(row[strip(SubSeq(s, pos + 1, j - 1))]) \o Substituted(s, row, j + 1)
             ELSE <<s[pos]>> \o Substituted(s, row, pos + 1)

\* The tokens "{...}" of a template, braces included.
Tokens(s) == {SubSeq(s, EarliestOpen(s, j), j) : j \in EarliestClosers(s)}

Occurs(tok, s) == \E i \in 1..(Len(s) - Len(tok) + 1) : SubSeq(s, i, i + Len(tok) - 1) = tok

\* C6 as stated: for a non-empty template all of whose names are fields of
\* the record, format_message_base returns the template with every token
\* replaced by str of the field's value, and no token of the template remains.
C6_Original ==
    (/\ FormattedRow
     /\ ~EmptyTemplate
     /\ \A name \in FieldNames(txf_area_msg) : name \in DataColumns)
        => /\ ret.out = Return(Substituted(txf_area_msg, df.rows[ret.row], 1))
           /\ \A tok \in Tokens(txf_area_msg) : ~Occurs(tok, ret.out.value)

\* C7 as stated: a template with no tokens is returned unchanged for any data
\* source, on the per-row and on the preview path.
C7_Original ==
    ((FormattedRow \/ FormattedPreview) /\ IsStr(txf_area_msg)
        /\ Tokens(txf_area_msg) = {})
        => ret.out = Return(txf_area_msg)

\* C7: a non-empty template with no tokens is returned unchanged on the
\* per-row path for any record and on the preview path for any table that is
\* present and not empty.
C7_NoTokens ==
    (/\ FormattedRow \/ (FormattedPreview /\ ~TableAbsentOrEmpty)
     /\ ~EmptyTemplate
     /\ Tokens(txf_area_msg) = {})
        => ret.out = Return(txf_area_msg)

C7_Witness ==
    /\ FormattedPreview
    /\ txf_area_msg = <<"a", "{", "}", "b">>
    /\ ret.out = Return(txf_area_msg)

----------------------------------------------------------------------------
(* Claims on handle_send_messages (checked under Spec): each is stated for   *)
(* every running call, on what that call did                                 *)

IsApply(e) == e.call = "df.apply"

IsLogin(e) == e.call = "check_login_whatsapp"

IsGetItem(e) == e.call = "recipient[]"

IsSend(e) == e.call = "send_whatsapp_message"

IsShow(e) == e.call = "show"

\* The send_whatsapp_message calls of the call running on thread t, in call
\* order.
SendCalls(t) == SelectSeq(trace[t], IsSend)

\* The send_whatsapp_message calls of thread t that raised, by their place in
\* call order.
FailedSends(t) == {i \in 1..Len(SendCalls(t)) : SendCalls(t)[i].result.kind = "raise"}

FirstFailed(t) == CHOOSE i \in FailedSends(t) : \A j \in FailedSends(t) : i <= j

\* The statuses the call running on thread t has written, in order.
Shown(t) == SelectSeq(trace[t], IsShow)

\* A status field shows a successfully-sent count.
ShowsCount(field) == field.value.text = "Messages sent successfully. "

\* A status field shows n as the successfully-sent count.
ReportsCount(field, n) == ShowsCount(field) /\ field.value.arg.n = n

\* The last event of the call running on thread t is the status field written
\* to target.
EndsShowing(t, target, field) ==
    /\ trace[t] # <<>>
    /\ IsShow(trace[t][Len(trace[t])])
    /\ trace[t][Len(trace[t])].target = target
    /\ trace[t][Len(trace[t])].field = field

\* C1 as stated: when the send to recipient k is the first to fail, the
\* handler reports k - 1 as the successfully-sent count and no recipient
\* after k is sent to.
C1_Original ==
    \A t \in Threads :
        FailedSends(t) # {} =>
            LET k == SendCalls(t)[FirstFailed(t)].index
            IN  /\ \E i \in 1..Len(Shown(t)) : ReportsCount(Shown(t)[i].field, k - 1)
                /\ \A i \in 1..Len(SendCalls(t)) : SendCalls(t)[i].index <= k

\* C2: the login check precedes every send (and every read of a row), and
\* when it raises NotLoggedInException the handler makes no send at all and
\* ends writing the instruction to log in.
C2_LoginBeforeSend ==
    \A t \in Threads :
        /\ \A i \in 1..Len(trace[t]) :
              (IsSend(trace[t][i]) \/ IsGetItem(trace[t][i])) =>
                  \E j \in 1..(i - 1) :
                      IsLogin(trace[t][j]) /\ trace[t][j].result.kind = "return"
        /\ \A j \in 1..Len(trace[t]) :
              (IsLogin(trace[t][j]) /\ trace[t][j].result = Raise(NotLoggedInException)) =>
                  /\ SendCalls(t) = <<>>
                  /\ Len(trace[t]) = j + 1
                  /\ EndsShowing(t, "txf_result", PleaseLogin)
                  /\ pc[t] = "done"

\* A call ended by the login check, its table formatted and nothing sent,
\* while the other call is sending and the preview dialog was opened.
C2_Witness ==
    \E t \in Threads :
        /\ pc[t] = "done"
        /\ \E j \in 1..Len(trace[t]) :
              IsLogin(trace[t][j]) /\ trace[t][j].result = Raise(NotLoggedInException)
        /\ EndsShowing(t, "txf_result", PleaseLogin)
        /\ df.cls = "DataFrame"
        /\ Len(df.rows) = MaxRecipients
        /\ \E u \in Threads \ {t} : pc[u] = "send"
        /\ page_dialog = "preview"

LoginPassed(t) ==
    \E j \in 1..Len(trace[t]) : IsLogin(trace[t][j]) /\ trace[t][j].result.kind = "return"

\* C9 as stated: the send calls are, in order, a prefix of the table the loop
\* iterates: the i-th call is for the i-th row (its numero and its formatted
\* message), so no recipient is attempted twice; and when no send fails the
\* handler ends having attempted all N rows and writes N as the count.
C9_Original ==
    \A t \in Threads :
        /\ SendCalls(t) # <<>> => loop_df[t].cls = "DataFrame"
        /\ \A i \in 1..Len(SendCalls(t)) :
              /\ i <= Len(loop_df[t].rows)
              /\ SendCalls(t)[i].index = i
              /\ SendCalls(t)[i].phone = loop_df[t].rows[i][Numero]
              /\ SendCalls(t)[i].message = loop_df[t].rows[i][FormattedMessage]
        /\ (pc[t] = "done" /\ LoginPassed(t) /\ FailedSends(t) = {}) =>
              /\ Len(SendCalls(t)) = Len(loop_df[t].rows)
              /\ messages_sent[t] = Len(loop_df[t].rows)
              /\ EndsShowing(t, "txf_result_op",
                             MessagesSentSuccessfully(Len(loop_df[t].rows)))

\* The rows of the table whose message does not format with the template.
UnformattableRows ==
    {i \in 1..Len(df.rows) : format_message(Series(df.rows[i]), txf_area_msg).kind = "raise"}

FirstUnformattable == CHOOSE i \in UnformattableRows : \A j \in UnformattableRows : i <= j

\* handle_send_messages starts on thread t and passes its two validations.
FormatsOn(t) ==
    /\ send_validate_and_format(t)
    /\ check_selector_template(selector_value)
    /\ check_upload_file(df)

\* C11: handle_send_messages formats every row before it checks the login or
\* sends.  The step that formats either finds a row that fails to format, and
\* then the handler ends there, writing the formatting error of the first such
\* row with the table left as it was, or gives every row its formatted
\* message and goes on to the login check; and a call that has checked the
\* login or read a row to send has formatted every row first.
C11_FormatBeforeLogin ==
    /\ [][\A t \in Threads :
            FormatsOn(t) =>
                IF UnformattableRows # {}
                THEN /\ pc'[t] = "done"
                     /\ df' = df
                     /\ Len(trace'[t]) = 2
                     /\ IsApply(trace'[t][1])
                     /\ trace'[t][1].result.kind = "raise"
                     /\ trace'[t][2] = ShowEvent("txf_result", ErrorFormattingMessages(
                            format_message(Series(df.rows[FirstUnformattable]),
                                           txf_area_msg).exc))
                ELSE /\ pc'[t] = "login"
                     /\ FormattedMessage \in df'.columns
                     /\ Len(df'.rows) = Len(df.rows)
                     /\ \A i \in 1..Len(df.rows) :
                           format_message(Series(df.rows[i]), txf_area_msg)
                               = Return(df'.rows[i][FormattedMessage].s)]_vars
    /\ [](\A t \in Threads :
            \A p \in 1..Len(trace[t]) :
                (IsLogin(trace[t][p]) \/ IsGetItem(trace[t][p]) \/ IsSend(trace[t][p])) =>
                    /\ p > 1
                    /\ IsApply(trace[t][1])
                    /\ trace[t][1].result.kind = "return")

\* A call ended on a table none of whose rows formats, with no login check
\* and no send.
C11_Witness ==
    \E t \in Threads :
        /\ pc[t] = "done"
        /\ Len(trace[t]) = 2
        /\ IsApply(trace[t][1])
        /\ trace[t][1].result = Raise(KeyError)
        /\ EndsShowing(t, "txf_result", ErrorFormattingMessages(KeyError))
        /\ df.cls = "DataFrame"
        /\ Len(df.rows) >= 1

----------------------------------------------------------------------------
(* Claim on handle_open_preview_dialog (checked under Spec) *)

\* The preview handler reaches generate_preview_template and formatting fails
\* with one of the two exceptions it catches.
PreviewFormattingFails ==
    /\ check_selector_template(selector_value)
    /\ check_upload_file(df)
    /\ check_df_uploaded(df)
    /\ format_preview_message(txf_area_msg, df) \in
          {Raise(DfEmptyException), Raise(TemplateEmptyOrNoneException)}

\* C10 as stated: when preview formatting fails with
\* TemplateEmptyOrNoneException or DfEmptyException, the handler shows the
\* error as status and does not open the preview dialog.
C10_Original ==
    [][((\E except_matches \in BOOLEAN : handle_open_preview_dialog(except_matches))
        /\ PreviewFormattingFails) =>
          /\ txf_result' = TheFileIsEmpty
          /\ dialog_open' = dialog_open
          /\ dialog_content' = dialog_content]_vars

====
